---- MODULE Spec2Model ----
(***************************************************************************)
(* Model of wave_to_img (src/src/main.rs): draw_waveform, upscale_image,   *)
(* Wave, scale_to_range, clamp_scale and saturating_cast.                  *)
(*                                                                         *)
(* Numbers.  TLC integers are 32 bits wide, so the machine words of the    *)
(* program are modelled at a reduced width: u32 is a word of U32Bits bits  *)
(* (U32Max stands for u32::MAX) and usize values range a little beyond it, *)
(* which is all the code distinguishes (a usize that fits u32 or not).     *)
(* f64 values are modelled as exact fractions <<n, d>> with d > 0.  On the *)
(* inputs enumerated here the f64 computation takes the same decisions as  *)
(* the exact one: the results that are exact ties for round() (height/2    *)
(* for an odd height, and maps of the minimum, whose divisor 32768 is a    *)
(* power of two) are computed exactly by f64, and every other result is    *)
(* further from a tie than f64 rounding error.  IEEE overflow and NaN are  *)
(* not modelled.                                                           *)
(*                                                                         *)
(* Colours.  fg_color and bg_color are the symbolic values FgColor and     *)
(* BgColor; Black is the Rgb([0, 0, 0]) that RgbImage::new fills with.     *)
(***************************************************************************)
EXTENDS Integers, Sequences, FiniteSets, TLC

(* ------------------------------ bounds -------------------------------- *)
U32Bits == 3
MaxLen == 3
MaxHeight == 4
MapMax == 2
FarValue == 50

(* ------------------------- program constants -------------------------- *)
SampleMax == 32767
SampleMin == -32768
SampleZero == 0

U32Max == 2^U32Bits - 1

FgColor == "fg"
BgColor == "bg"
Black == "black"

(* ------------------------------ inputs -------------------------------- *)
RECURSIVE SeqsOfLen(_, _)
SeqsOfLen(S, n) ==
    IF n = 0 THEN {<<>>}
    ELSE {Append(s, x) : s \in SeqsOfLen(S, n - 1), x \in S}

GenSamples == {SampleMin, SampleZero, SampleMax}
GoldenWave == <<16384, 32767, -32768, -16384>>
LongSample(i) ==
    CASE i % 3 = 0 -> SampleMax
      [] i % 3 = 1 -> -16384
      [] OTHER -> SampleZero
LongWaves == {[i \in 1..n |-> LongSample(i)] : n \in {U32Max + 1, U32Max + 2}}
Waves == UNION {SeqsOfLen(GenSamples, n) : n \in 0..MaxLen} \cup {GoldenWave} \cup LongWaves
Widths == 0..(U32Max + 2)
Heights == 0..MaxHeight \cup {U32Max + 1}
ChannelCounts == 0..2
MapValues == (-MapMax)..MapMax
MapInputs == MapValues \cup {-FarValue, FarValue}

VARIABLES
    width, height, data, channel_count,
    pc, panic, small_wave, image, samples_per_pixel,
    order, reads, writes, top_pixel, bottom_pixel,
    pre_upscale, allocated, zero_divisor,
    map_args, map_scaled, map_result

inputs == <<width, height, data, channel_count>>
render_log == <<reads, writes, top_pixel, bottom_pixel>>
map_vars == <<map_args, map_scaled, map_result>>
vars == <<width, height, data, channel_count, pc, panic, small_wave, image,
          samples_per_pixel, order, reads, writes, top_pixel, bottom_pixel,
          pre_upscale, allocated, zero_divisor, map_args, map_scaled, map_result>>

(* --------------------------- f64 arithmetic --------------------------- *)
F(n) == <<n, 1>>
FAdd(a, b) == <<a[1] * b[2] + b[1] * a[2], a[2] * b[2]>>
FSub(a, b) == <<a[1] * b[2] - b[1] * a[2], a[2] * b[2]>>
FMul(a, b) == <<a[1] * b[1], a[2] * b[2]>>
FDiv(a, b) ==
    IF b[1] > 0 THEN <<a[1] * b[2], a[2] * b[1]>>
    ELSE <<-(a[1] * b[2]), -(a[2] * b[1])>>
FLt(a, b) == a[1] * b[2] < b[1] * a[2]
FLe(a, b) == a[1] * b[2] <= b[1] * a[2]
FEq(a, b) == a[1] * b[2] = b[1] * a[2]
\* Changed: truncation instead of rounding.
FTrunc(a) ==
    IF a[1] >= 0 THEN a[1] \div a[2] ELSE -((-a[1]) \div a[2])
\* f64::round: to the nearest integer, halves away from zero.
FRound(a) ==
    IF a[1] >= 0 THEN (2 * a[1] + a[2]) \div (2 * a[2])
    ELSE -((2 * (-a[1]) + a[2]) \div (2 * a[2]))
\* ToPrimitive::to_u32: None (modelled as -1) outside the u32 range.
ToU32(n) == IF 0 <= n /\ n <= U32Max THEN n ELSE -1

scale_to_range(value, in_begin, in_end, out_begin, out_end) ==
    FAdd(out_begin,
         FMul(FDiv(FSub(value, in_begin), FSub(in_end, in_begin)),
              FSub(out_end, out_begin)))

\* Changed: the upper bound is not applied.
ClampLowerOnly(input, min, max) == IF FLt(input, min) THEN min ELSE input

clamp(input, min, max) ==
    IF FLt(input, min) THEN min
    ELSE IF FLt(max, input) THEN max
    ELSE input

clamp_scale(value, in_begin, in_end, out_begin, out_end) ==
    clamp(scale_to_range(value, in_begin, in_end, out_begin, out_end),
          out_begin, out_end)

saturating_cast(value) == IF value <= U32Max THEN value ELSE U32Max
\* `width as u32`: the low 32 bits.
as_u32(value) == value % (U32Max + 1)

(* -------------------------------- Wave -------------------------------- *)
sample_count(d) == Len(d)
frame_count(d, cc) == Len(d) \div cc

(* ------------------------------ RgbImage ------------------------------ *)
NewImage(w, h) ==
    [width |-> w, height |-> h,
     pix |-> [c \in 0..(w - 1) |-> [r \in 0..(h - 1) |-> Black]]]
InImage(img, c, r) == 0 <= c /\ c < img.width /\ 0 <= r /\ r < img.height

(* ---------------------------- upscale_image --------------------------- *)
\* column * image.width() in u32 arithmetic.
MulOverflows(column, iw) == column * iw > U32Max
WrappingMul(column, iw) == (column * iw) % (U32Max + 1)
\* pi of line 30, for a non-empty output row (ow >= 1).
SourceColumn(column, iw, ow) == WrappingMul(column, iw) \div ow

upscale_image(img, new_width) ==
    [width |-> new_width, height |-> img.height,
     pix |-> [column \in 0..(new_width - 1) |->
                [row \in 0..(img.height - 1) |->
                    img.pix[SourceColumn(column, img.width, new_width)][row]]]]

(* ---------------------------- draw_waveform --------------------------- *)
SetMax(S) == CHOOSE x \in S : \A y \in S : y <= x
SetMin(S) == CHOOSE x \in S : \A y \in S : x <= y

\* Changed: no branch on small_wave, the width is always the frame count.
ImageWidthNoBranch(d, cc, w) == saturating_cast(frame_count(d, cc))

ImageWidth(d, cc, w) ==
    IF frame_count(d, cc) < w THEN saturating_cast(frame_count(d, cc))
    ELSE saturating_cast(w)

\* Changed: the quotient is rounded up.
SamplesPerPixelCeil(d, iw) == (sample_count(d) + iw - 1) \div iw

SamplesPerPixel(d, iw) == sample_count(d) \div iw

\* Changed: the window of column c starts one window too far.
WindowStartOffByOne(column, spp) == (column + 1) * spp
\* sp of line 74 and the index range sp..sp + samples_per_pixel (0-based).
WindowStart(column, spp) == column * spp
Window(column, spp) == WindowStart(column, spp)..(WindowStart(column, spp) + spp - 1)
WindowSamples(d, column, spp) == {d[i + 1] : i \in Window(column, spp)}

TopPixel(max, h) ==
    ToU32(FRound(clamp_scale(F(max), F(0), F(SampleMax), FDiv(F(h), F(2)), F(h))))

\* Changed: the minimum is mapped onto the whole height, not its lower half.
BottomPixelFullRange(min, h) ==
    ToU32(FRound(clamp_scale(F(min), F(SampleMin), F(SampleZero), F(0), F(h))))

BottomPixel(min, h) ==
    ToU32(FRound(clamp_scale(F(min), F(SampleMin), F(SampleZero),
                             F(0), FDiv(F(h), F(2)))))

\* One `for row in lo..hi { image.put_pixel(col, row, color) }` loop.
PutRows(img, col, lo, hi, color) ==
    [img EXCEPT !.pix =
        [c \in DOMAIN img.pix |->
            [r \in DOMAIN img.pix[c] |->
                IF c = col /\ lo <= r /\ r < hi THEN color ELSE img.pix[c][r]]]]

\* Changed: the last loop paints the next column.
PaintColumnSpill(img, col, bottom, top) ==
    PutRows(PutRows(PutRows(img, saturating_cast(col), 0, bottom, BgColor),
                    saturating_cast(col), bottom, top, FgColor),
            saturating_cast(col) + 1, top, img.height, BgColor)

\* The three loops of lines 102-110, in the code's order.
PaintColumn(img, col, bottom, top) ==
    PutRows(PutRows(PutRows(img, saturating_cast(col), 0, bottom, BgColor),
                    saturating_cast(col), bottom, top, FgColor),
            saturating_cast(col), top, img.height, BgColor)

\* The (column, row) pairs the three loops hand to put_pixel.
PutTargets(img, col, bottom, top) ==
    {<<saturating_cast(col), r>> :
        r \in (0..(bottom - 1)) \cup (bottom..(top - 1)) \cup (top..(img.height - 1))}

Columns == 0..(image.width - 1)
\* The columns whose loop body has run; order lists them as they ran.
rendered == {order[i] : i \in DOMAIN order}

\* The whole column loop (lines 73-111) over the first n columns, left to right.
RECURSIVE RenderColumns(_, _, _, _)
RenderColumns(img, d, spp, n) ==
    IF n = 0 THEN img
    ELSE LET column == n - 1
             samples == WindowSamples(d, column, spp)
         IN  PaintColumn(RenderColumns(img, d, spp, n - 1), column,
                         BottomPixel(SetMin(samples), img.height),
                         TopPixel(SetMax(samples), img.height))

(* ------------------------------- states ------------------------------- *)
Quiet ==
    /\ pc = "start"
    /\ panic = "none"
    /\ small_wave = FALSE
    /\ image = NewImage(0, 0)
    /\ samples_per_pixel = 0
    /\ order = <<>>
    /\ reads = <<>>
    /\ writes = <<>>
    /\ top_pixel = <<>>
    /\ bottom_pixel = <<>>
    /\ pre_upscale = NewImage(0, 0)
    /\ allocated = FALSE
    /\ zero_divisor = FALSE

Init ==
    /\ width \in Widths
    /\ height \in Heights
    /\ data \in Waves
    /\ channel_count \in ChannelCounts
    /\ Quiet
    /\ map_args = <<>>
    /\ map_scaled = <<>>
    /\ map_result = <<>>

Panic(reason) ==
    /\ pc' = "panic"
    /\ panic' = reason

\* Lines 64-71: frame_count(), the allocation and samples_per_pixel.
Start ==
    /\ pc = "start"
    /\ IF channel_count = 0
       THEN /\ Panic("rem_by_zero")
            /\ zero_divisor' = TRUE
            /\ UNCHANGED <<small_wave, image, samples_per_pixel, allocated,
                           render_log>>
       ELSE IF Len(data) % channel_count # 0
       THEN /\ Panic("assert")
            /\ UNCHANGED <<small_wave, image, samples_per_pixel, allocated,
                           zero_divisor, render_log>>
       ELSE LET iw == ImageWidth(data, channel_count, width)
                img == NewImage(iw, saturating_cast(height))
            IN  /\ small_wave' = (frame_count(data, channel_count) < width)
                /\ image' = img
                /\ allocated' = TRUE
                /\ reads' = [c \in 0..(iw - 1) |-> {}]
                /\ writes' = [c \in 0..(iw - 1) |-> {}]
                /\ top_pixel' = [c \in 0..(iw - 1) |-> -1]
                /\ bottom_pixel' = [c \in 0..(iw - 1) |-> -1]
                /\ IF iw = 0
                   THEN /\ Panic("div_by_zero")
                        /\ zero_divisor' = TRUE
                        /\ UNCHANGED samples_per_pixel
                   ELSE /\ samples_per_pixel' = SamplesPerPixel(data, iw)
                        /\ pc' = "render"
                        /\ UNCHANGED <<panic, zero_divisor>>
    /\ UNCHANGED <<inputs, order, pre_upscale, map_vars>>

\* Lines 74-110: the body of the column loop for one column.
RenderStep(column) ==
    LET spp == samples_per_pixel
        sp == WindowStart(column, spp)
    IN  /\ UNCHANGED <<inputs, small_wave, samples_per_pixel, pre_upscale,
                       allocated, zero_divisor, map_vars>>
        /\ IF sp + spp > Len(data)
           THEN /\ Panic("slice_index")
                /\ UNCHANGED <<image, order, render_log>>
           ELSE IF spp = 0
           THEN /\ Panic("unwrap_none")
                /\ UNCHANGED <<image, order, render_log>>
           ELSE LET max == SetMax(WindowSamples(data, column, spp))
                    min == SetMin(WindowSamples(data, column, spp))
                    top == TopPixel(max, image.height)
                    bottom == BottomPixel(min, image.height)
                    targets == PutTargets(image, column, bottom, top)
                IN  /\ reads' = [reads EXCEPT ![column] = Window(column, spp)]
                    /\ top_pixel' = [top_pixel EXCEPT ![column] = top]
                    /\ bottom_pixel' = [bottom_pixel EXCEPT ![column] = bottom]
                    /\ IF top = -1 \/ bottom = -1
                       THEN /\ Panic("to_u32")
                            /\ UNCHANGED <<image, order, writes>>
                       ELSE /\ writes' = [writes EXCEPT ![column] = targets]
                            /\ IF \E t \in targets : ~InImage(image, t[1], t[2])
                               THEN /\ Panic("put_pixel")
                                    /\ UNCHANGED <<image, order>>
                               ELSE /\ image' = PaintColumn(image, column, bottom, top)
                                    /\ order' = Append(order, column)
                                    /\ UNCHANGED <<pc, panic>>

\* Line 73: the loop takes the columns in increasing order.
RenderColumn ==
    /\ pc = "render"
    /\ rendered # Columns
    /\ RenderStep(SetMin(Columns \ rendered))

\* Lines 113-115 with upscale_image (26-36).  A u32 multiplication that
\* overflows panics in a build with overflow checks and wraps in one without.
Upscale ==
    /\ pc = "render"
    /\ rendered = Columns
    /\ small_wave
    /\ pre_upscale' = image
    /\ LET new_width == as_u32(width)
           overflows == \E row \in 0..(image.height - 1) :
                          \E column \in 0..(new_width - 1) :
                             MulOverflows(column, image.width)
           outside == \E row \in 0..(image.height - 1) :
                        \E column \in 0..(new_width - 1) :
                           ~InImage(image, SourceColumn(column, image.width, new_width), row)
       IN  \E overflow_checks \in BOOLEAN :
              IF overflow_checks /\ overflows
              THEN /\ Panic("mul_overflow")
                   /\ UNCHANGED image
              ELSE IF outside
              THEN /\ Panic("get_pixel")
                   /\ UNCHANGED image
              ELSE /\ image' = upscale_image(image, new_width)
                   /\ pc' = "done"
                   /\ UNCHANGED panic
    /\ UNCHANGED <<inputs, small_wave, samples_per_pixel, order, render_log,
                   allocated, zero_divisor, map_vars>>

\* Line 117 when the wave is not small.
ReturnImage ==
    /\ pc = "render"
    /\ rendered = Columns
    /\ ~small_wave
    /\ pre_upscale' = image
    /\ pc' = "done"
    /\ UNCHANGED <<inputs, panic, small_wave, image, samples_per_pixel, order,
                   render_log, allocated, zero_divisor, map_vars>>

Next == Start \/ RenderColumn \/ Upscale \/ ReturnImage

Spec == Init /\ [][Next]_vars

\* The column loop as a parallel map: any column not yet rendered may go next.
RenderAnyColumn ==
    /\ pc = "render"
    /\ \E column \in Columns \ rendered : RenderStep(column)

NextPar == Start \/ RenderAnyColumn \/ Upscale \/ ReturnImage

\* The long waves are left out: every order of their columns is too many.
InitPar ==
    /\ Init
    /\ data \notin LongWaves

SpecPar == InitPar /\ [][NextPar]_vars

(* ----------------------- the range mapper alone ----------------------- *)
InitMap ==
    /\ width = 0
    /\ height = 0
    /\ data = <<>>
    /\ channel_count = 1
    /\ Quiet
    /\ \E value \in MapInputs, in_begin \in MapValues, in_end \in MapValues,
          out_begin \in MapValues, out_end \in MapValues :
          /\ in_begin # in_end
          /\ out_begin <= out_end
          /\ map_args = <<value, in_begin, in_end, out_begin, out_end>>
    /\ map_scaled = <<>>
    /\ map_result = <<>>

ClampScale ==
    /\ pc = "start"
    /\ pc' = "mapped"
    /\ map_scaled' = scale_to_range(F(map_args[1]), F(map_args[2]), F(map_args[3]),
                                    F(map_args[4]), F(map_args[5]))
    /\ map_result' = clamp_scale(F(map_args[1]), F(map_args[2]), F(map_args[3]),
                                 F(map_args[4]), F(map_args[5]))
    /\ UNCHANGED <<inputs, panic, small_wave, image, samples_per_pixel, order,
                   render_log, pre_upscale, allocated, zero_divisor, map_args>>

NextMap == ClampScale

SpecMap == InitMap /\ [][NextMap]_vars

(* ------------------------------- claims ------------------------------- *)
\* The Wave invariant: frame_count() returns.
ValidWave == channel_count >= 1 /\ Len(data) % channel_count = 0
FrameCount == frame_count(data, channel_count)
Terminated == pc \in {"done", "panic"}
\* The dimensions the column loop ran on (image itself is replaced by Upscale).
RenderWidth == Cardinality(DOMAIN reads)
RenderHeight == saturating_cast(height)
StartPassed == pc \in {"render", "done"} \/ panic \in {"mul_overflow", "get_pixel"}
RenderFinished == pc = "done" \/ panic \in {"mul_overflow", "get_pixel"}

\* C1 as stated: for a wave with frame_count >= width and any usize width and
\* height, draw_waveform returns an image of dimensions exactly (width, height).
C1_AsClaimed ==
    (ValidWave /\ FrameCount >= width /\ Terminated)
        => (pc = "done" /\ image.width = width /\ image.height = height)

\* C1 amended: the same for 1 <= width <= u32::MAX and height <= u32::MAX; a
\* width of 0 stops at the division of line 71 and a larger value is saturated
\* to u32::MAX by saturating_cast.
C1_Dimensions ==
    (ValidWave /\ FrameCount >= width /\ Terminated
     /\ 1 <= width /\ width <= U32Max /\ height <= U32Max)
        => (pc = "done" /\ image.width = width /\ image.height = height)

C1_Witness ==
    /\ pc = "done"
    /\ ValidWave
    /\ FrameCount > width
    /\ width >= 2
    /\ height >= 1
    /\ image.width = width
    /\ image.height = height

\* C2: for a wave with frame_count < width the intermediate image is
\* (frame_count, height) and the image returned after upscale_image is
\* (width, height).  Stated here on the part of the claimed range that has
\* valid geometry and fits u32 (1 <= frame_count, width and height <= u32::MAX),
\* where the claim still fails.
C2_AsClaimed ==
    (ValidWave /\ FrameCount < width /\ Terminated
     /\ 1 <= FrameCount /\ width <= U32Max /\ height <= U32Max)
        => /\ pc = "done"
           /\ pre_upscale.width = FrameCount
           /\ pre_upscale.height = height
           /\ image.width = width
           /\ image.height = height

\* C3: a width of 0, a height of 0 or an empty wave is reported as an error
\* before any image is allocated and without a division by zero being executed.
Degenerate == width = 0 \/ height = 0 \/ Len(data) = 0
C3_AsClaimed ==
    (ValidWave /\ Degenerate /\ pc # "start")
        => (pc = "panic" /\ ~allocated /\ ~zero_divisor)

\* The envelope of column c as the claims state it, in integer arithmetic:
\* round-half-away-from-zero of the clamped affine map.
ClaimedSpp == Len(data) \div RenderWidth
ClaimedWindow(c) == {data[i + 1] : i \in (c * ClaimedSpp)..((c + 1) * ClaimedSpp - 1)}
ClaimedMax(c) == CHOOSE x \in ClaimedWindow(c) : \A y \in ClaimedWindow(c) : y <= x
ClaimedMin(c) == CHOOSE x \in ClaimedWindow(c) : \A y \in ClaimedWindow(c) : x <= y
HalfHeightRounded == (RenderHeight + 1) \div 2
ClaimedTop(c) ==
    IF ClaimedMax(c) <= 0 THEN HalfHeightRounded
    ELSE (RenderHeight * SampleMax + ClaimedMax(c) * RenderHeight + SampleMax)
            \div (2 * SampleMax)
ClaimedBottom(c) ==
    IF ClaimedMin(c) >= 0 THEN HalfHeightRounded
    ELSE ((ClaimedMin(c) - SampleMin) * RenderHeight - SampleMin) \div (2 * (-SampleMin))
Band(img, c) == {r \in 0..(img.height - 1) : img.pix[c][r] = FgColor}

\* C4: in the pre-upscale image every pixel (c, r) is the foreground colour iff
\* bottom_pixel(c) <= r < top_pixel(c) and the background colour otherwise, with
\* the envelope taken over samples [c*spp, (c+1)*spp); the mono wave
\* [16384, 32767, -32768, -16384] at 4x4 gives the bands [2,3) [2,4) [0,2) [1,2).
C4_Painting ==
    /\ pc = "render" =>
          \A c \in rendered : \A r \in 0..(image.height - 1) :
             image.pix[c][r] =
                IF ClaimedBottom(c) <= r /\ r < ClaimedTop(c) THEN FgColor ELSE BgColor
    /\ RenderFinished =>
          /\ pre_upscale.width = RenderWidth
          /\ pre_upscale.height = RenderHeight
          /\ \A c \in 0..(RenderWidth - 1) : \A r \in 0..(RenderHeight - 1) :
                pre_upscale.pix[c][r] =
                   IF ClaimedBottom(c) <= r /\ r < ClaimedTop(c) THEN FgColor ELSE BgColor
    /\ (pc = "done" /\ data = GoldenWave /\ channel_count = 1 /\ width = 4 /\ height = 4) =>
          /\ Band(image, 0) = {2}
          /\ Band(image, 1) = {2, 3}
          /\ Band(image, 2) = {0, 1}
          /\ Band(image, 3) = {1}

C4_Witness ==
    /\ pc = "done"
    /\ data = GoldenWave
    /\ channel_count = 1
    /\ width = 4
    /\ height = 4
    /\ image.pix[3][1] = FgColor
    /\ image.pix[3][2] = BgColor

\* A column whose whole window is zero, once its loop body has run.
SilentColumn(c) == c \in rendered /\ ClaimedWindow(c) = {SampleZero}
ColumnOf(c) == IF pc = "render" THEN image.pix[c] ELSE pre_upscale.pix[c]

\* C5 as stated: for every height >= 1, even or odd, a silent column has
\* top_pixel = bottom_pixel = height/2 (exactly, or as the integer quotient), no
\* foreground pixel and only background pixels.
C5_AsClaimed ==
    (StartPassed /\ RenderHeight >= 1) =>
        \A c \in 0..(RenderWidth - 1) : SilentColumn(c) =>
            /\ top_pixel[c] = bottom_pixel[c]
            /\ 2 * top_pixel[c] = RenderHeight \/ top_pixel[c] = RenderHeight \div 2
            /\ \A r \in 0..(RenderHeight - 1) : ColumnOf(c)[r] = BgColor

\* C5 amended: a silent column has top_pixel = bottom_pixel = round(height/2),
\* halves rounded away from zero, which is height/2 for an even height and
\* (height+1)/2 for an odd one; no foreground pixel, every row background.
C5_Silent ==
    (StartPassed /\ RenderHeight >= 1) =>
        \A c \in 0..(RenderWidth - 1) : SilentColumn(c) =>
            /\ top_pixel[c] = bottom_pixel[c]
            /\ top_pixel[c] = (RenderHeight + 1) \div 2
            /\ RenderHeight % 2 = 0 => 2 * top_pixel[c] = RenderHeight
            /\ \A r \in 0..(RenderHeight - 1) : ColumnOf(c)[r] = BgColor

C5_Witness ==
    /\ pc = "done"
    /\ RenderHeight = 3
    /\ RenderWidth >= 2
    /\ SilentColumn(1)
    /\ ~SilentColumn(0)
    /\ top_pixel[1] = 2

\* C9: wherever rendering proceeds with width >= 1 and height >= 1, every column
\* has 0 <= bottom_pixel <= top_pixel <= H, every pixel write is inside the
\* image, every sample read is below sample_count, and no access panics.
C9_IndexSafety ==
    (ValidWave /\ width >= 1 /\ height >= 1) =>
        /\ panic \notin {"slice_index", "unwrap_none", "to_u32", "put_pixel", "get_pixel"}
        /\ \A c \in DOMAIN reads :
              /\ \A i \in reads[c] : 0 <= i /\ i < Len(data)
              /\ \A t \in writes[c] : /\ 0 <= t[1] /\ t[1] < RenderWidth
                                      /\ 0 <= t[2] /\ t[2] < RenderHeight
              /\ c \in rendered =>
                    /\ 0 <= bottom_pixel[c]
                    /\ bottom_pixel[c] <= top_pixel[c]
                    /\ top_pixel[c] <= RenderHeight

C9_Witness ==
    /\ pc = "done"
    /\ RenderWidth >= 1
    /\ RenderHeight >= 2
    /\ \E c \in rendered :
          /\ top_pixel[c] = RenderHeight
          /\ bottom_pixel[c] = 0
          /\ (Len(data) - 1) \in reads[c]
          /\ <<c, RenderHeight - 1>> \in writes[c]

UpscaleRan == small_wave /\ RenderFinished
UpscaleContract == pre_upscale.width >= 1 /\ as_u32(width) >= pre_upscale.width

\* C7: upscale_image returns a new_width x source.height image whose pixel
\* (oc, r) is the source pixel (floor(oc * source.width / new_width), r), the
\* product being exact for every pair of u32 widths.
C7_AsClaimed ==
    (UpscaleRan /\ UpscaleContract) =>
        /\ pc = "done"
        /\ image.width = as_u32(width)
        /\ image.height = pre_upscale.height
        /\ \A oc \in 0..(image.width - 1) : \A r \in 0..(image.height - 1) :
              image.pix[oc][r] =
                 pre_upscale.pix[(oc * pre_upscale.width) \div image.width][r]

\* C8: the work for column c reads only its own window and writes only column
\* c, the windows of distinct columns are disjoint, and the columns taken in
\* any order give the image of the left-to-right loop.
C8_ColumnIndependence ==
    StartPassed =>
        /\ \A c \in rendered :
              /\ reads[c] = Window(c, samples_per_pixel)
              /\ \A t \in writes[c] : t[1] = c
        /\ \A c \in rendered : \A d \in rendered :
              c # d => reads[c] \cap reads[d] = {}
        /\ (pc = "render" /\ rendered = Columns) =>
              image = RenderColumns(NewImage(RenderWidth, RenderHeight), data,
                                    samples_per_pixel, RenderWidth)
        /\ RenderFinished =>
              pre_upscale = RenderColumns(NewImage(RenderWidth, RenderHeight), data,
                                          samples_per_pixel, RenderWidth)

\* The columns were taken right to left and the second one has a taller band.
C8_Witness ==
    /\ pc = "done"
    /\ RenderWidth >= 3
    /\ RenderHeight >= 2
    /\ \A i \in DOMAIN order : order[i] = RenderWidth - i
    /\ top_pixel[1] > top_pixel[0]
    /\ bottom_pixel[2] < bottom_pixel[1]

\* The waves that agree with data on the first n samples.
TrailingVariants(n) ==
    {[i \in 1..Len(data) |-> IF i <= n THEN data[i] ELSE f[i]] :
        f \in [(n + 1)..Len(data) -> GenSamples]}

\* C10: with image_width = min(frame_count, width) >= 1, samples_per_pixel is
\* at least 1, the column windows are pairwise disjoint and cover exactly the
\* prefix [0, image_width * spp), the trailing samples are never read, and waves
\* that differ only in them render the same image.
C10_Windows ==
    StartPassed =>
        LET spp == samples_per_pixel
            prefix == 0..(RenderWidth * spp - 1)
        IN  /\ spp >= 1
            /\ spp = Len(data) \div RenderWidth
            /\ RenderWidth * spp <= Len(data)
            /\ Len(data) - RenderWidth * spp = Len(data) % RenderWidth
            /\ \A c \in 0..(RenderWidth - 1) : \A d \in 0..(RenderWidth - 1) :
                  c # d => Window(c, spp) \cap Window(d, spp) = {}
            /\ UNION {Window(c, spp) : c \in 0..(RenderWidth - 1)} = prefix
            /\ \A c \in rendered : reads[c] = Window(c, spp) /\ reads[c] \subseteq prefix
            /\ panic # "slice_index"
            /\ RenderFinished =>
                  \A other \in TrailingVariants(RenderWidth * spp) :
                     RenderColumns(NewImage(RenderWidth, RenderHeight), other,
                                   SamplesPerPixel(other, RenderWidth), RenderWidth)
                        = pre_upscale

C10_Witness ==
    /\ pc = "done"
    /\ RenderWidth >= 2
    /\ RenderHeight >= 2
    /\ Len(data) % RenderWidth # 0
    /\ data[Len(data)] = SampleMax
    /\ \A c \in rendered : top_pixel[c] < RenderHeight

====
